---- MODULE Spec2Model ----
(***************************************************************************)
(* AutoHealX AI health monitor (src/monitoring/ai-health-monitor.py).      *)
(*                                                                         *)
(* The model follows AIHealthMonitor: the per-service history buffer and   *)
(* model state, check_thresholds, predict_anomaly, the alert list built   *)
(* and processed by run_monitoring_cycle, trigger_self_healing with its    *)
(* three remediation helpers, and the loop of run_continuous_monitoring.   *)
(*                                                                         *)
(* Units.  The source works on floats; the model uses fixed point:         *)
(*   response_time  in milliseconds          (2.0 s   = 2000)              *)
(*   error_rate     in 1/10000               (0.05    = 500)               *)
(*   cpu_usage      in tenths of a percent   (80.0 %  = 800)               *)
(*   memory_usage   in tenths of a percent   (85.0 %  = 850)               *)
(*   score, confidence in hundredths         (1.0     = 100)               *)
(* request_count and is_healthy are read only by the isolation forest,     *)
(* whose result is a nondeterministic choice here, so they are left out    *)
(* of the sample record.                                                   *)
(***************************************************************************)
EXTENDS Integers, Sequences, FiniteSets, TLC

(***************************************************************************)
(* Bounds of the model.                                                    *)
(***************************************************************************)
NumServices == 2
MaxCycles   == 1

(***************************************************************************)
(* Program constants.                                                      *)
(***************************************************************************)
HistoryCap == 100
MinTrain   == 10
ConfOne    == 100

\* self.services, in the insertion order that .items() iterates.
services == <<"product-service", "cart-service", "order-service", "payment-service">>

ServiceOrder == SubSeq(services, 1, NumServices)
Services     == {ServiceOrder[i] : i \in 1..NumServices}

\* self.thresholds
thresholds ==
  [response_time |-> 2000, error_rate |-> 500, cpu_usage |-> 800, memory_usage |-> 850]

None == [none |-> TRUE]

\* A local that holds the value v (a local that holds nothing is None).
Some(v) == [value |-> v]

(***************************************************************************)
(* ServiceMetrics                                                          *)
(***************************************************************************)
ServiceMetrics(s, ts, rt, er, cpu, mem) ==
  [service_name |-> s, timestamp |-> ts, response_time |-> rt,
   error_rate |-> er, cpu_usage |-> cpu, memory_usage |-> mem]

(***************************************************************************)
(* HealthAlert                                                             *)
(***************************************************************************)
HealthAlert(s, type, sev, m, conf) ==
  [service_name |-> s, alert_type |-> type, severity |-> sev,
   metrics |-> m, prediction_confidence |-> conf]

(***************************************************************************)
(* check_thresholds                                                        *)
(***************************************************************************)
\* checks with memory_usage examined first
checks_MemoryFirst ==
  << <<"memory_usage",  "HIGH_MEMORY_USAGE">>,
     <<"response_time", "HIGH_RESPONSE_TIME">>,
     <<"error_rate",    "HIGH_ERROR_RATE">>,
     <<"cpu_usage",     "HIGH_CPU_USAGE">> >>

\* The list `checks` of check_thresholds: metric name and alert type, in order.
checks ==
  << <<"response_time", "HIGH_RESPONSE_TIME">>,
     <<"error_rate",    "HIGH_ERROR_RATE">>,
     <<"cpu_usage",     "HIGH_CPU_USAGE">>,
     <<"memory_usage",  "HIGH_MEMORY_USAGE">> >>

\* Exceeds with >= in place of >
Exceeds_Inclusive(value, threshold) == value >= threshold

\* value > threshold
Exceeds(value, threshold) == value > threshold

\* value > threshold * 1.5, on integers: 2*value > 3*threshold
IsCritical(value, threshold) == 2 * value > 3 * threshold

Severity(value, threshold) ==
  IF IsCritical(value, threshold) THEN "CRITICAL" ELSE "WARNING"

RECURSIVE check_thresholds_from(_, _)
check_thresholds_from(metrics, i) ==
  IF i > Len(checks) THEN <<>>
  ELSE LET metric_name == checks[i][1]
           alert_type  == checks[i][2]
           value       == metrics[metric_name]
           threshold   == thresholds[metric_name]
           rest        == check_thresholds_from(metrics, i + 1)
       IN  IF Exceeds(value, threshold)
           THEN <<HealthAlert(metrics.service_name, alert_type,
                              Severity(value, threshold), metrics, ConfOne)>> \o rest
           ELSE rest

check_thresholds(metrics) == check_thresholds_from(metrics, 1)

(***************************************************************************)
(* Inputs: the values the collector can report for one field, and the      *)
(* samples it can return in a cycle.                                       *)
(***************************************************************************)
Fields == {"response_time", "error_rate", "cpu_usage", "memory_usage"}

Low(f)  == thresholds[f] \div 2
At(f)   == thresholds[f]
Warn(f) == thresholds[f] + 1
At15(f) == (3 * thresholds[f]) \div 2
Crit(f) == At15(f) + 1

FieldValues(f) == {Low(f), At(f), Warn(f), At15(f), Crit(f)}

\* Every combination of the five values of the four fields.
GridSamples(s, ts) ==
  {ServiceMetrics(s, ts, rt, er, cpu, mem) :
     rt \in FieldValues("response_time"), er \in FieldValues("error_rate"),
     cpu \in FieldValues("cpu_usage"), mem \in FieldValues("memory_usage")}

\* The samples the collector returns in the monitoring loop: one without
\* alerts, and one with a WARNING alert (response_time) and three CRITICAL
\* alerts (error_rate, cpu_usage, memory_usage).
CollectorSamples(s, ts) ==
  { ServiceMetrics(s, ts, Low("response_time"), Low("error_rate"),
                   Low("cpu_usage"), Low("memory_usage")),
    ServiceMetrics(s, ts, Warn("response_time"), Crit("error_rate"),
                   Crit("cpu_usage"), Crit("memory_usage")) }

\* The samples of a single pass over one service: every combination of no
\* alert, WARNING and CRITICAL for the four fields.
PassValues(f) == {Low(f), Warn(f), Crit(f)}

PassSamples(s, ts) ==
  {ServiceMetrics(s, ts, rt, er, cpu, mem) :
     rt \in PassValues("response_time"), er \in PassValues("error_rate"),
     cpu \in PassValues("cpu_usage"), mem \in PassValues("memory_usage")}

\* A history of n unremarkable samples, taken at times 1..n.
BaseHistory(s, n) ==
  [i \in 1..n |-> ServiceMetrics(s, i, Low("response_time"), Low("error_rate"),
                                 Low("cpu_usage"), Low("memory_usage"))]

\* History lengths the monitor starts from: empty, just below the first fit,
\* and around the cap.
PrefillLens == {0, MinTrain - 2, MinTrain - 1, HistoryCap - 1, HistoryCap}

\* Raw values score_samples can return, in hundredths.
Scores == {-80, -30, 10}

(***************************************************************************)
(* predict_anomaly, pure parts                                             *)
(***************************************************************************)
Max(a, b) == IF a >= b THEN a ELSE b
Min(a, b) == IF a <= b THEN a ELSE b

\* LastN keeping one sample fewer: seq[-(n - 1):]
LastN_OneShort(seq, n) ==
  IF Len(seq) <= n THEN seq ELSE SubSeq(seq, Len(seq) - n + 2, Len(seq))

\* seq[-n:]
LastN(seq, n) ==
  IF Len(seq) <= n THEN seq ELSE SubSeq(seq, Len(seq) - n + 1, Len(seq))

\* AppendHistory keeping the oldest samples: history[:100]
AppendHistory_KeepOldest(history, metrics) ==
  LET h == Append(history, metrics)
  IN  IF Len(h) > HistoryCap THEN SubSeq(h, 1, HistoryCap) ELSE h

\* lines 203-207: append, then keep only the last 100 data points
AppendHistory(history, metrics) ==
  LET h == Append(history, metrics)
  IN  IF Len(h) > HistoryCap THEN LastN(h, HistoryCap) ELSE h

\* ColdStart off by one: a history of 9 samples is fitted
ColdStart_OffByOne(history) == Len(history) < MinTrain - 1

\* line 210
ColdStart(history) == Len(history) < MinTrain

\* Confidence without the clamp
Confidence_Unclamped(score) == (score + (ConfOne \div 2)) * 2

\* line 231: confidence = max(0, min(1, (score + 0.5) * 2))
Confidence(score) == Max(0, Min(ConfOne, (score + (ConfOne \div 2)) * 2))

NoAnomaly == [is_anomaly |-> FALSE, confidence |-> 0]

\* line 211: return False, 0.0
ColdStartResult == NoAnomaly

\* A handler that reports the failed prediction as an anomaly
FailureResult_Anomalous == [is_anomaly |-> TRUE, confidence |-> 0]

\* lines 236-238: the handler of predict_anomaly returns False, 0.0
FailureResult == NoAnomaly

(***************************************************************************)
(* State                                                                   *)
(***************************************************************************)
VARIABLES
  metrics_history,    \* self.metrics_history: service -> sequence of samples
  scalers,            \* self.scalers: service -> number of the snapshot the
                      \*   scaler was last fitted on (0: not fitted)
  anomaly_detectors,  \* self.anomaly_detectors: likewise for the forest
  pc,                 \* position of the control loop
  cycle,              \* number of cycles started
  svc,                \* index in ServiceOrder of the service being processed
  metrics,            \* local `metrics` of run_monitoring_cycle
  threshold_alerts,   \* local `threshold_alerts` of run_monitoring_cycle
  anomaly_result,     \* (is_anomaly, confidence) returned by predict_anomaly
  alert_idx,          \* position of the loop over threshold_alerts
  result,             \* returncode of the docker restart
  message,            \* argument of _send_notification
  \* history variables, for stating the properties
  appended,           \* service -> every sample ever appended, in order
  status,             \* service -> what happened to it in this cycle
  processed,          \* alerts of the current service logged at line 385
  intents,            \* actuator invocations for the current service
  notifications,      \* notification events for the current service
  score,              \* raw score of the last fit (None when there was none)
  fit_outcome,        \* how the last predict_anomaly call ended
  interrupted_at      \* pc at which KeyboardInterrupt stopped the loop

vars == <<metrics_history, scalers, anomaly_detectors, pc, cycle, svc, metrics,
          threshold_alerts, anomaly_result, alert_idx, result, message, appended,
          status, processed, intents, notifications, score, fit_outcome,
          interrupted_at>>

model_vars  == <<metrics_history, scalers, anomaly_detectors, appended>>
local_vars  == <<metrics, threshold_alerts, anomaly_result, alert_idx, result,
                 message, score, fit_outcome>>
log_vars    == <<status, processed, intents, notifications>>

\* datetime.now(): one tick per cycle, after the times of the initial history
Now == HistoryCap + cycle

\* CurrentService with one buffer and one model shared by all the services
CurrentService_First == ServiceOrder[1]

CurrentService == ServiceOrder[svc]

(***************************************************************************)
(* __init__ / _initialize_ml_models, followed by any number of earlier     *)
(* cycles in which the first service returned unremarkable samples and     *)
(* the other services could not be collected.                              *)
(***************************************************************************)
InitialHistory(s, n) == IF s = ServiceOrder[1] THEN BaseHistory(s, n) ELSE <<>>

\* The fit left by the last of the earlier cycles.
InitialFit(s, n) == IF ColdStart(InitialHistory(s, n)) THEN 0 ELSE n

Init ==
  /\ \E n \in PrefillLens :
       /\ metrics_history = [s \in Services |-> InitialHistory(s, n)]
       /\ appended = [s \in Services |-> InitialHistory(s, n)]
       /\ scalers = [s \in Services |-> InitialFit(s, n)]
       /\ anomaly_detectors = [s \in Services |-> InitialFit(s, n)]
  /\ pc = "loop"
  /\ cycle = 0
  /\ svc = 0
  /\ metrics = None
  /\ threshold_alerts = <<>>
  /\ anomaly_result = NoAnomaly
  /\ alert_idx = 0
  /\ result = None
  /\ message = None
  /\ status = [s \in Services |-> "pending"]
  /\ processed = <<>>
  /\ intents = <<>>
  /\ notifications = <<>>
  /\ score = None
  /\ fit_outcome = "none"
  /\ interrupted_at = "none"

(***************************************************************************)
(* run_monitoring_cycle: leaving the body of the per-service loop, either  *)
(* by `continue`, by the handler of line 391, or at the end of the body.   *)
(* After the last service the cycle returns and the loop sleeps.           *)
(***************************************************************************)
\* NextService without the handler of line 391: an exception in the body of
\* the loop ends the cycle
NextService_AbortOnError(outcome) ==
  /\ status' = [status EXCEPT ![CurrentService] = outcome]
  /\ metrics' = None
  /\ threshold_alerts' = <<>>
  /\ anomaly_result' = NoAnomaly
  /\ alert_idx' = 0
  /\ result' = None
  /\ message' = None
  /\ score' = None
  /\ fit_outcome' = "none"
  /\ processed' = <<>>
  /\ intents' = <<>>
  /\ notifications' = <<>>
  /\ IF svc < NumServices /\ outcome # "error"
       THEN /\ svc' = svc + 1
            /\ pc' = "collect"
       ELSE /\ svc' = 0
            /\ pc' = "sleep"

NextService(outcome) ==
  /\ status' = [status EXCEPT ![CurrentService] = outcome]
  /\ metrics' = None
  /\ threshold_alerts' = <<>>
  /\ anomaly_result' = NoAnomaly
  /\ alert_idx' = 0
  /\ result' = None
  /\ message' = None
  /\ score' = None
  /\ fit_outcome' = "none"
  /\ processed' = <<>>
  /\ intents' = <<>>
  /\ notifications' = <<>>
  /\ IF svc < NumServices
       THEN /\ svc' = svc + 1
            /\ pc' = "collect"
       ELSE /\ svc' = 0
            /\ pc' = "sleep"

\* StartCycle fired by a timer, whether or not the cycle before has returned
StartCycle_Timer ==
  /\ pc \in {"loop", "collect", "check_thresholds", "predict_anomaly", "fuse",
             "process_alerts"}
  /\ cycle <= MaxCycles
  /\ cycle' = cycle + 1
  /\ svc' = 1
  /\ pc' = "collect"
  /\ status' = [s \in Services |-> "pending"]
  /\ UNCHANGED <<model_vars, local_vars, processed, intents, notifications,
                 interrupted_at>>

\* line 400: run_continuous_monitoring calls run_monitoring_cycle
StartCycle ==
  /\ pc = "loop"
  /\ cycle < MaxCycles
  /\ cycle' = cycle + 1
  /\ svc' = 1
  /\ pc' = "collect"
  /\ status' = [s \in Services |-> "pending"]
  /\ UNCHANGED <<model_vars, local_vars, processed, intents, notifications,
                 interrupted_at>>

\* lines 353-363: the collector returned a sample
CollectSample ==
  /\ pc = "collect"
  /\ \E m \in CollectorSamples(CurrentService, Now) : metrics' = m
  /\ pc' = "check_thresholds"
  /\ UNCHANGED <<model_vars, cycle, svc, threshold_alerts, anomaly_result,
                 alert_idx, result, message, score, fit_outcome, log_vars,
                 interrupted_at>>

\* CollectUnavailable storing an empty sample for the service it skips
CollectUnavailable_StoresSample ==
  /\ pc = "collect"
  /\ NextService("skipped")
  /\ LET m == ServiceMetrics(CurrentService, Now, 0, 0, 0, 0)
     IN  /\ metrics_history' =
               [metrics_history EXCEPT ![CurrentService] = AppendHistory(@, m)]
         /\ appended' = [appended EXCEPT ![CurrentService] = Append(@, m)]
  /\ UNCHANGED <<scalers, anomaly_detectors, cycle, interrupted_at>>

\* lines 125, 147-149, 355-357: the collector returned None; `continue`
CollectUnavailable ==
  /\ pc = "collect"
  /\ NextService("skipped")
  /\ UNCHANGED <<model_vars, cycle, interrupted_at>>

\* CollectMalformed without the handlers of lines 391 and 405: the exception
\* leaves the loop
CollectMalformed_Fatal ==
  /\ pc = "collect"
  /\ pc' = "stopped"
  /\ UNCHANGED <<model_vars, local_vars, log_vars, cycle, svc, interrupted_at>>

\* lines 359-363, 391-392: the collector returned a sample whose
\* response_time is not a number; formatting it raises, the handler of the
\* per-service try logs the error and the loop goes on
CollectMalformed ==
  /\ pc = "collect"
  /\ NextService("error")
  /\ UNCHANGED <<model_vars, cycle, interrupted_at>>

\* line 366
CheckThresholds ==
  /\ pc = "check_thresholds"
  /\ threshold_alerts' = check_thresholds(metrics)
  /\ pc' = "predict_anomaly"
  /\ UNCHANGED <<model_vars, cycle, svc, metrics, anomaly_result, alert_idx,
                 result, message, score, fit_outcome, log_vars, interrupted_at>>

(***************************************************************************)
(* predict_anomaly (lines 199-238), called at line 369.  The scaler and    *)
(* the forest are sklearn objects: what they compute is a choice among     *)
(* the outcomes they can have.  A fit is recorded as the number of         *)
(* samples appended so far, which identifies the buffer it was made on.    *)
(***************************************************************************)
predict_anomaly(service_name, m) ==
  IF service_name \notin DOMAIN metrics_history
    THEN \* line 203 raises KeyError, which line 236 catches
         /\ anomaly_result' = FailureResult
         /\ fit_outcome' = "key_error"
         /\ score' = None
         /\ UNCHANGED model_vars
    ELSE
     LET s       == service_name
         history == AppendHistory(metrics_history[s], m)
         version == Len(appended[s]) + 1
     IN  /\ metrics_history' = [metrics_history EXCEPT ![s] = history]
         /\ appended' = [appended EXCEPT ![s] = Append(@, m)]
         /\ IF ColdStart(history)
              THEN \* line 211
                   /\ anomaly_result' = ColdStartResult
                   /\ fit_outcome' = "cold"
                   /\ score' = None
                   /\ UNCHANGED <<scalers, anomaly_detectors>>
              ELSE \/ \* line 218 raises: fit() has reset the scaler
                      /\ scalers' = [scalers EXCEPT ![s] = 0]
                      /\ UNCHANGED anomaly_detectors
                      /\ anomaly_result' = FailureResult
                      /\ fit_outcome' = "scale_failed"
                      /\ score' = None
                   \/ \* line 221 raises
                      /\ scalers' = [scalers EXCEPT ![s] = version]
                      /\ UNCHANGED anomaly_detectors
                      /\ anomaly_result' = FailureResult
                      /\ fit_outcome' = "fit_failed"
                      /\ score' = None
                   \/ \* lines 225-228 raise
                      /\ scalers' = [scalers EXCEPT ![s] = version]
                      /\ anomaly_detectors' = [anomaly_detectors EXCEPT ![s] = version]
                      /\ anomaly_result' = FailureResult
                      /\ fit_outcome' = "score_failed"
                      /\ score' = None
                   \/ \* lines 227-234
                      \E prediction \in {1, -1}, sc \in Scores :
                        /\ scalers' = [scalers EXCEPT ![s] = version]
                        /\ anomaly_detectors' =
                             [anomaly_detectors EXCEPT ![s] = version]
                        /\ anomaly_result' = [is_anomaly |-> prediction = -1,
                                              confidence |-> Confidence(sc)]
                        /\ fit_outcome' = "scored"
                        /\ score' = Some(sc)

\* line 369: run_monitoring_cycle calls predict_anomaly for the service it
\* has collected
PredictAnomaly ==
  /\ pc = "predict_anomaly"
  /\ predict_anomaly(CurrentService, metrics)
  /\ pc' = "fuse"
  /\ UNCHANGED <<cycle, svc, metrics, threshold_alerts, alert_idx, result, message,
                 log_vars, interrupted_at>>

\* AnomalyAlert raised as CRITICAL
AnomalyAlert_Critical(s, m, confidence) ==
  HealthAlert(s, "ANOMALY_DETECTED", "CRITICAL", m, confidence)

\* lines 371-381 (the ANOMALY_DETECTED alert) and 384 (start of the loop)
AnomalyAlert(s, m, confidence) ==
  HealthAlert(s, "ANOMALY_DETECTED", "WARNING", m, confidence)

\* Fuse putting the anomaly alert in front of the threshold alerts
Fuse_AnomalyFirst(alerts, s, m, res) ==
  IF res.is_anomaly THEN <<AnomalyAlert(s, m, res.confidence)>> \o alerts
  ELSE alerts

Fuse(alerts, s, m, res) ==
  IF res.is_anomaly THEN Append(alerts, AnomalyAlert(s, m, res.confidence))
  ELSE alerts

FuseAlerts ==
  /\ pc = "fuse"
  /\ threshold_alerts' = Fuse(threshold_alerts, CurrentService, metrics, anomaly_result)
  /\ alert_idx' = 1
  /\ pc' = "process_alerts"
  /\ UNCHANGED <<model_vars, cycle, svc, metrics, anomaly_result, result, message,
                 score, fit_outcome, log_vars, interrupted_at>>

\* NeedsHealing ignoring the severity
NeedsHealing_AnySeverity(alert) == alert.severity \in {"CRITICAL", "WARNING"}

\* line 388
NeedsHealing(alert) == alert.severity = "CRITICAL"

\* lines 384-389: one iteration of `for alert in threshold_alerts`
ProcessAlert ==
  /\ pc = "process_alerts"
  /\ alert_idx <= Len(threshold_alerts)
  /\ LET alert == threshold_alerts[alert_idx]
     IN  /\ processed' = Append(processed, alert)
         /\ IF NeedsHealing(alert)
              THEN /\ pc' = "trigger_self_healing"
                   /\ UNCHANGED alert_idx
              ELSE /\ pc' = "process_alerts"
                   /\ alert_idx' = alert_idx + 1
  /\ UNCHANGED <<model_vars, cycle, svc, metrics, threshold_alerts, anomaly_result,
                 result, message, score, fit_outcome, status, intents,
                 notifications,
                 interrupted_at>>

\* the loop over threshold_alerts is exhausted: end of the per-service body
FinishService ==
  /\ pc = "process_alerts"
  /\ alert_idx > Len(threshold_alerts)
  /\ NextService("done")
  /\ UNCHANGED <<model_vars, cycle, interrupted_at>>

(***************************************************************************)
(* trigger_self_healing (lines 269-289) and the remediation helpers.       *)
(***************************************************************************)
\* lines 277-286: the helper an alert type is routed to ("none": line 286)
Remediation(alert_type) ==
  CASE alert_type = "HIGH_MEMORY_USAGE"  -> "_restart_service"
    [] alert_type = "HIGH_CPU_USAGE"     -> "_scale_service"
    [] alert_type = "HIGH_ERROR_RATE"    -> "_rollback_service"
    [] alert_type = "HIGH_RESPONSE_TIME" -> "_scale_service"
    [] OTHER                             -> "none"

\* What is left unchanged while an alert is being healed.
heal_frame == <<model_vars, cycle, svc, metrics, threshold_alerts, anomaly_result,
                score, fit_outcome, status, processed, interrupted_at>>

\* back in the loop of line 384, at the next alert
AlertDone ==
  /\ alert_idx' = alert_idx + 1
  /\ result' = None
  /\ message' = None
  /\ pc' = "process_alerts"

trigger_self_healing ==
  /\ pc = "trigger_self_healing"
  /\ LET helper == Remediation(threshold_alerts[alert_idx].alert_type)
     IN  IF helper = "none"
           THEN AlertDone
           ELSE /\ pc' = helper
                /\ UNCHANGED <<alert_idx, result, message>>
  /\ UNCHANGED <<heal_frame, intents, notifications>>

\* lines 294-296: docker restart is run; its returncode is the actuator's report
_restart_service ==
  /\ pc = "_restart_service"
  /\ intents' = Append(intents, "restart_service")
  /\ \E returncode \in {0, 1} : result' = Some(returncode)
  /\ pc' = "_restart_service_result"
  /\ UNCHANGED <<heal_frame, alert_idx, message, notifications>>

\* lines 298-302
RestartNotifies(returncode) == returncode = 0

_restart_service_result ==
  /\ pc = "_restart_service_result"
  /\ IF RestartNotifies(result.value)
       THEN /\ message' = Some("restarted due to high memory usage")
            /\ pc' = "_send_notification"
            /\ UNCHANGED <<alert_idx, result>>
       ELSE AlertDone
  /\ UNCHANGED <<heal_frame, intents, notifications>>

\* lines 309-315 (scale_up is True at both call sites)
_scale_service ==
  /\ pc = "_scale_service"
  /\ intents' = Append(intents, "scale_service(up)")
  /\ message' = Some("scaled up due to performance issues")
  /\ pc' = "_send_notification"
  /\ UNCHANGED <<heal_frame, alert_idx, result, notifications>>

\* lines 322-326
_rollback_service ==
  /\ pc = "_rollback_service"
  /\ intents' = Append(intents, "rollback_service")
  /\ message' = Some("rolled back due to high error rate")
  /\ pc' = "_send_notification"
  /\ UNCHANGED <<heal_frame, alert_idx, result, notifications>>

\* lines 331-344: the notification event is emitted (line 333) and recorded
_send_notification ==
  /\ pc = "_send_notification"
  /\ notifications' = Append(notifications, message.value)
  /\ AlertDone
  /\ UNCHANGED <<heal_frame, intents>>

(***************************************************************************)
(* run_continuous_monitoring (lines 394-407)                               *)
(***************************************************************************)
\* line 401: the sleep between two cycles is over
Sleep ==
  /\ pc = "sleep"
  /\ pc' = "loop"
  /\ UNCHANGED <<model_vars, local_vars, log_vars, cycle, svc, interrupted_at>>

\* Ctrl+C.  KeyboardInterrupt is raised in the main thread wherever it is
\* executing; no `except Exception` catches it, so it unwinds to lines
\* 402-404 (or out of asyncio.run) and the loop ends.  The frames it
\* unwinds through, and their locals, are gone.
KeyboardInterrupt ==
  /\ pc # "stopped"
  /\ interrupted_at' = pc
  /\ pc' = "stopped"
  /\ metrics' = None
  /\ threshold_alerts' = <<>>
  /\ anomaly_result' = NoAnomaly
  /\ alert_idx' = 0
  /\ result' = None
  /\ message' = None
  /\ score' = None
  /\ fit_outcome' = "none"
  /\ UNCHANGED <<model_vars, log_vars, cycle, svc>>

Next ==
  \/ StartCycle
  \/ CollectSample
  \/ CollectUnavailable
  \/ CollectMalformed
  \/ CheckThresholds
  \/ PredictAnomaly
  \/ FuseAlerts
  \/ ProcessAlert
  \/ FinishService
  \/ trigger_self_healing
  \/ _restart_service
  \/ _restart_service_result
  \/ _scale_service
  \/ _rollback_service
  \/ _send_notification
  \/ Sleep
  \/ KeyboardInterrupt

Spec == Init /\ [][Next]_vars

\* The steps the monitor takes by itself: every step but the interrupt.
LoopStep ==
  \/ StartCycle
  \/ CollectSample
  \/ CollectUnavailable
  \/ CollectMalformed
  \/ CheckThresholds
  \/ PredictAnomaly
  \/ FuseAlerts
  \/ ProcessAlert
  \/ FinishService
  \/ trigger_self_healing
  \/ _restart_service
  \/ _restart_service_result
  \/ _scale_service
  \/ _rollback_service
  \/ _send_notification
  \/ Sleep

\* The event loop runs the one task of the monitor whenever it can run:
\* every await of the loop ends (the collector's requests after their
\* timeout of 5 s at the latest, the sleep after the interval), and the
\* docker command that line 296 waits for, without a timeout of its own,
\* returns.  Nothing makes an interrupt happen.
\* Every step of LoopStep changes the position, so fairness is stated on it.
position == <<pc, cycle, svc, alert_idx>>

\* The monitor right after construction: no history, nothing fitted.
InitLive ==
  /\ Init
  /\ \A s \in Services : metrics_history[s] = <<>>

SpecLive == InitLive /\ [][Next]_vars /\ WF_position(LoopStep)

(***************************************************************************)
(* check_thresholds on its own: the first service of the first cycle has   *)
(* been collected, with any combination of the field values, and line 366  *)
(* is about to run.                                                        *)
(***************************************************************************)
InitThresholds ==
  /\ metrics_history = [s \in Services |-> <<>>]
  /\ appended = [s \in Services |-> <<>>]
  /\ scalers = [s \in Services |-> 0]
  /\ anomaly_detectors = [s \in Services |-> 0]
  /\ pc = "check_thresholds"
  /\ cycle = 1
  /\ svc = 1
  /\ metrics \in GridSamples(ServiceOrder[1], HistoryCap + 1)
  /\ threshold_alerts = <<>>
  /\ anomaly_result = NoAnomaly
  /\ alert_idx = 0
  /\ result = None
  /\ message = None
  /\ status = [s \in Services |-> "pending"]
  /\ processed = <<>>
  /\ intents = <<>>
  /\ notifications = <<>>
  /\ score = None
  /\ fit_outcome = "none"
  /\ interrupted_at = "none"

NextThresholds == CheckThresholds

SpecThresholds == InitThresholds /\ [][NextThresholds]_vars

(***************************************************************************)
(* One pass of run_monitoring_cycle over the first service (lines          *)
(* 366-389), from the point where the collector has returned a sample,     *)
(* for every sample of PassSamples and every initial history.              *)
(***************************************************************************)
InitPass ==
  /\ \E n \in PrefillLens :
       /\ metrics_history = [s \in Services |-> InitialHistory(s, n)]
       /\ appended = [s \in Services |-> InitialHistory(s, n)]
       /\ scalers = [s \in Services |-> InitialFit(s, n)]
       /\ anomaly_detectors = [s \in Services |-> InitialFit(s, n)]
  /\ pc = "check_thresholds"
  /\ cycle = 1
  /\ svc = 1
  /\ metrics \in PassSamples(ServiceOrder[1], HistoryCap + 1)
  /\ threshold_alerts = <<>>
  /\ anomaly_result = NoAnomaly
  /\ alert_idx = 0
  /\ result = None
  /\ message = None
  /\ status = [s \in Services |-> "pending"]
  /\ processed = <<>>
  /\ intents = <<>>
  /\ notifications = <<>>
  /\ score = None
  /\ fit_outcome = "none"
  /\ interrupted_at = "none"

NextPass ==
  \/ CheckThresholds
  \/ PredictAnomaly
  \/ FuseAlerts
  \/ ProcessAlert
  \/ FinishService
  \/ trigger_self_healing
  \/ _restart_service
  \/ _restart_service_result
  \/ _scale_service
  \/ _rollback_service
  \/ _send_notification
  \/ KeyboardInterrupt

SpecPass == InitPass /\ [][NextPass]_vars

(***************************************************************************)
(* predict_anomaly called directly (lines 199-238), with any service name  *)
(* its signature admits: a configured one, for which _initialize_ml_models *)
(* made a history, a scaler and a model, or one that is not configured.    *)
(***************************************************************************)
\* A name that is not a key of self.services.
UnknownService == "inventory-service"

ServiceNames == Services \cup {UnknownService}

\* The samples passed in a direct call.
CallSamples(s, ts) ==
  {ServiceMetrics(s, ts, rt, Low("error_rate"), Low("cpu_usage"), mem) :
     rt \in {Low("response_time"), Crit("response_time")},
     mem \in {Low("memory_usage"), Crit("memory_usage")}}

InitCall ==
  /\ \E n \in PrefillLens :
       /\ metrics_history = [s \in Services |-> InitialHistory(s, n)]
       /\ appended = [s \in Services |-> InitialHistory(s, n)]
       /\ scalers = [s \in Services |-> InitialFit(s, n)]
       /\ anomaly_detectors = [s \in Services |-> InitialFit(s, n)]
  /\ pc = "call"
  /\ cycle = 0
  /\ svc = 0
  /\ metrics = None
  /\ threshold_alerts = <<>>
  /\ anomaly_result = NoAnomaly
  /\ alert_idx = 0
  /\ result = None
  /\ message = None
  /\ status = [s \in Services |-> "pending"]
  /\ processed = <<>>
  /\ intents = <<>>
  /\ notifications = <<>>
  /\ score = None
  /\ fit_outcome = "none"
  /\ interrupted_at = "none"

\* predict_anomaly(service_name, metrics) is called and returns; `cycle`
\* counts the calls made
CallPredictAnomaly ==
  /\ pc = "call"
  /\ cycle < MaxCycles
  /\ cycle' = cycle + 1
  /\ \E service_name \in ServiceNames :
       \E m \in CallSamples(service_name, Now + 1) :
         /\ metrics' = m
         /\ predict_anomaly(service_name, m)
  /\ UNCHANGED <<pc, svc, threshold_alerts, alert_idx, result, message, log_vars,
                 interrupted_at>>

NextCall == CallPredictAnomaly

SpecCall == InitCall /\ [][NextCall]_vars

TypeOK ==
  /\ pc \in {"loop", "collect", "check_thresholds", "predict_anomaly", "fuse",
             "process_alerts", "trigger_self_healing", "_restart_service",
             "_restart_service_result", "_scale_service", "_rollback_service",
             "_send_notification", "sleep", "stopped", "call"}
  /\ cycle \in 0..MaxCycles
  /\ svc \in 0..NumServices

(***************************************************************************)
(* Properties                                                              *)
(***************************************************************************)
\* Positions inside the loop over the alerts of one service (lines 384-389).
ProcessPcs ==
  {"process_alerts", "trigger_self_healing", "_restart_service",
   "_restart_service_result", "_scale_service", "_rollback_service",
   "_send_notification"}

\* Number of alerts of the current service that line 385 has logged.
LoggedCount == IF pc = "process_alerts" THEN alert_idx - 1 ELSE alert_idx

\* The loop over the alerts of the current service is exhausted.
AlertsExhausted == pc = "process_alerts" /\ alert_idx > Len(threshold_alerts)

ThresholdTypes ==
  <<"HIGH_RESPONSE_TIME", "HIGH_ERROR_RATE", "HIGH_CPU_USAGE", "HIGH_MEMORY_USAGE">>

Rank(type) == CHOOSE i \in 1..Len(ThresholdTypes) : ThresholdTypes[i] = type

IsThresholdType(type) == \E i \in 1..Len(ThresholdTypes) : ThresholdTypes[i] = type

\* C1: the history of a service never holds more than 100 samples, and it
\* is always the tail of everything appended for the service, in the order
\* of appending: all of it while fewer than 100 samples were appended, the
\* 100 most recent ones afterwards.
C1_HistoryWindow ==
  \A s \in Services :
    LET h == metrics_history[s]
        a == appended[s]
    IN  /\ Len(h) <= HistoryCap
        /\ Len(h) = IF Len(a) >= HistoryCap THEN HistoryCap ELSE Len(a)
        /\ \A i \in 1..Len(h) : h[i] = a[Len(a) - Len(h) + i]

\* predict_anomaly has returned for a service whose oldest sample was evicted.
C1_Witness ==
  /\ pc = "fuse"
  /\ Len(appended[CurrentService]) > HistoryCap
  /\ metrics_history[CurrentService][HistoryCap] = metrics

\* C2: while fewer than 10 samples have been appended for a service, its
\* scaler and its model are not fitted, and a predict_anomaly call that
\* leaves the history shorter than 10 returns (False, 0.0) by the cold-start
\* branch.
C2_ColdStart ==
  /\ \A s \in Services :
       Len(appended[s]) < MinTrain => scalers[s] = 0 /\ anomaly_detectors[s] = 0
  /\ (pc = "fuse" /\ Len(metrics_history[CurrentService]) < MinTrain) =>
       /\ anomaly_result = [is_anomaly |-> FALSE, confidence |-> 0]
       /\ fit_outcome = "cold"
  /\ (pc = "fuse" /\ fit_outcome # "cold") =>
       Len(appended[CurrentService]) >= MinTrain

\* The ninth call for a service has returned.
C2_Witness ==
  /\ pc = "fuse"
  /\ Len(metrics_history[CurrentService]) = MinTrain - 1
  /\ fit_outcome = "cold"

\* The fields checked, their limits and 1.5 times their limits, in the units
\* of the model: 2.0 s, 0.05, 80.0 %, 85.0 % and 3.0 s, 0.075, 120.0 %, 127.5 %.
LimitFields   == <<"response_time", "error_rate", "cpu_usage", "memory_usage">>
Limits        == <<2000, 500, 800, 850>>
CriticalAbove == <<3000, 750, 1200, 1275>>

\* C3: check_thresholds returns exactly one alert per field whose value is
\* strictly greater than its limit, in the order response_time, error_rate,
\* cpu_usage, memory_usage, and nothing else; the severity of an alert is
\* CRITICAL iff the value is strictly greater than 1.5 times the limit and
\* WARNING otherwise; prediction_confidence is 1.0.
C3_CheckThresholds ==
  pc = "predict_anomaly" =>
    LET a    == threshold_alerts
        over == {i \in 1..4 : metrics[LimitFields[i]] > Limits[i]}
    IN  /\ Len(a) = Cardinality(over)
        /\ \A k \in 1..Len(a) :
             /\ IsThresholdType(a[k].alert_type)
             /\ LET r == Rank(a[k].alert_type)
                IN  /\ r \in over
                    /\ a[k].severity =
                         IF metrics[LimitFields[r]] > CriticalAbove[r]
                           THEN "CRITICAL" ELSE "WARNING"
             /\ a[k].prediction_confidence = 100
             /\ a[k].service_name = metrics.service_name
             /\ a[k].metrics = metrics
        /\ \A j, k \in 1..Len(a) :
             j < k => Rank(a[j].alert_type) < Rank(a[k].alert_type)

\* A sample at exactly 1.5 times the response_time limit (WARNING), exactly at
\* the error_rate limit (no alert), just over the cpu_usage limit (WARNING)
\* and over 1.5 times the memory_usage limit (CRITICAL) has been evaluated.
C3_Witness ==
  /\ pc = "predict_anomaly"
  /\ metrics.response_time = 3000
  /\ metrics.error_rate = 500
  /\ metrics.cpu_usage = 801
  /\ metrics.memory_usage = 1276
  /\ Len(threshold_alerts) = 3
  /\ threshold_alerts[1].severity = "WARNING"
  /\ threshold_alerts[3].severity = "CRITICAL"

\* C4: the list of alerts processed for a service consists of the threshold
\* alerts, in field-check order, followed by at most one ANOMALY_DETECTED
\* alert as the last element; that alert is present iff predict_anomaly
\* returned is_anomaly = true, has severity WARNING and carries the returned
\* confidence; the alerts are logged and dispatched in the order of the list.
C4_FusionOrder ==
  pc \in ProcessPcs =>
    LET a       == threshold_alerts
        n       == Len(a)
        hasAnom == n > 0 /\ a[n].alert_type = "ANOMALY_DETECTED"
        k       == IF hasAnom THEN n - 1 ELSE n
    IN  /\ hasAnom <=> anomaly_result.is_anomaly
        /\ hasAnom =>
             /\ a[n].severity = "WARNING"
             /\ a[n].prediction_confidence = anomaly_result.confidence
             /\ a[n].service_name = CurrentService
        /\ SubSeq(a, 1, k) = check_thresholds(metrics)
        /\ \A i \in 1..k : IsThresholdType(a[i].alert_type)
        /\ \A i, j \in 1..k :
             i < j => Rank(a[i].alert_type) < Rank(a[j].alert_type)
        /\ processed = SubSeq(a, 1, LoggedCount)

\* Four threshold alerts and the anomaly alert have all been processed.
C4_Witness ==
  /\ AlertsExhausted
  /\ Len(threshold_alerts) = 5
  /\ threshold_alerts[5].alert_type = "ANOMALY_DETECTED"
  /\ threshold_alerts[5].prediction_confidence = 40
  /\ processed = threshold_alerts

\* The remediation table: the intents an alert must cause.
IntentsFor(alert) ==
  IF alert.severity # "CRITICAL" THEN <<>>
  ELSE CASE alert.alert_type = "HIGH_MEMORY_USAGE"  -> <<"restart_service">>
         [] alert.alert_type = "HIGH_CPU_USAGE"     -> <<"scale_service(up)">>
         [] alert.alert_type = "HIGH_RESPONSE_TIME" -> <<"scale_service(up)">>
         [] alert.alert_type = "HIGH_ERROR_RATE"    -> <<"rollback_service">>
         [] OTHER                                   -> <<>>

RECURSIVE IntentsForAll(_)
IntentsForAll(alerts) ==
  IF alerts = <<>> THEN <<>>
  ELSE IntentsFor(Head(alerts)) \o IntentsForAll(Tail(alerts))

\* C5: the actuator invocations made for a service are exactly one per
\* CRITICAL alert handled so far, chosen by the table (HIGH_MEMORY_USAGE ->
\* restart_service, HIGH_CPU_USAGE and HIGH_RESPONSE_TIME -> scale_service(up),
\* HIGH_ERROR_RATE -> rollback_service, any other type -> none), in the order
\* of the alerts; a WARNING alert causes none, and a failed invocation is not
\* repeated.
C5_Dispatch ==
  /\ pc = "process_alerts" =>
       intents = IntentsForAll(SubSeq(threshold_alerts, 1, alert_idx - 1))
  /\ pc \in ProcessPcs \ {"process_alerts"} =>
       \/ intents = IntentsForAll(SubSeq(threshold_alerts, 1, alert_idx - 1))
       \/ intents = IntentsForAll(SubSeq(threshold_alerts, 1, alert_idx))

\* A WARNING alert and three CRITICAL alerts have been handled; the restart
\* was invoked once although it failed.
C5_Witness ==
  /\ AlertsExhausted
  /\ Len(threshold_alerts) >= 4
  /\ threshold_alerts[1].severity = "WARNING"
  /\ intents = <<"rollback_service", "scale_service(up)", "restart_service">>
  /\ Len(notifications) = 2

\* C6: every remediation attempted for the alerts handled so far has been
\* followed by exactly one notification event, whether the actuator
\* succeeded or failed.
C6_NotificationPerIntent ==
  pc = "process_alerts" => Len(notifications) = Len(intents)

\* Positions inside run_monitoring_cycle.
CyclePcs == {"collect", "check_thresholds", "predict_anomaly", "fuse"} \cup ProcessPcs

Settled == {"skipped", "error", "done"}

\* C7: inside a cycle every service before the current one has been dealt
\* with (skipped, failed with an exception that was caught, or processed to
\* the end of its alerts) and the others are still to come; the cycle
\* returns only when every service has been dealt with, whatever happened
\* to the services before it.
C7_ServiceIsolation ==
  /\ pc \in CyclePcs =>
       \A j \in 1..NumServices :
         /\ j < svc => status[ServiceOrder[j]] \in Settled
         /\ j >= svc => status[ServiceOrder[j]] = "pending"
  /\ pc = "sleep" => \A s \in Services : status[s] \in Settled

\* The first service raised an exception, and the second one has been
\* collected, alerted on and remediated in the same cycle.
C7_Witness ==
  /\ svc = 2
  /\ status[ServiceOrder[1]] = "error"
  /\ AlertsExhausted
  /\ Len(processed) = 4
  /\ Len(intents) = 3

FitFailures == {"scale_failed", "fit_failed", "score_failed"}

\* C8: when scaling, fitting or scoring fails, predict_anomaly returns
\* (False, 0.0) to the cycle, which goes on: the list of alerts holds the
\* threshold alerts of the sample and no ANOMALY_DETECTED alert, and they
\* are processed in order.
C8_FitFailure ==
  fit_outcome \in FitFailures =>
    /\ pc \in {"fuse"} \cup ProcessPcs
    /\ anomaly_result = [is_anomaly |-> FALSE, confidence |-> 0]
    /\ \A i \in 1..Len(threshold_alerts) :
         threshold_alerts[i].alert_type # "ANOMALY_DETECTED"
    /\ threshold_alerts = check_thresholds(metrics)
    /\ pc \in ProcessPcs => processed = SubSeq(threshold_alerts, 1, LoggedCount)

\* The fit failed and the four threshold alerts of the sample have been
\* processed and remediated.
C8_Witness ==
  /\ fit_outcome = "fit_failed"
  /\ AlertsExhausted
  /\ Len(processed) = 4
  /\ Len(intents) = 4

\* C9: the confidence returned by predict_anomaly, and carried by the
\* anomaly alert, is between 0.0 and 1.0 inclusive.
C9_ConfidenceRange ==
  /\ anomaly_result.confidence >= 0
  /\ anomaly_result.confidence <= ConfOne
  /\ \A i \in 1..Len(threshold_alerts) :
       /\ threshold_alerts[i].prediction_confidence >= 0
       /\ threshold_alerts[i].prediction_confidence <= ConfOne

\* A raw score below -0.5 has been mapped to the confidence 0.0.
C9_Witness ==
  /\ pc = "fuse"
  /\ fit_outcome = "scored"
  /\ score.value < -50
  /\ anomaly_result.confidence = 0

\* C10: the loop stops only between cycles: when it has stopped, no cycle
\* is partly executed.
C10_StopsBetweenCycles ==
  pc = "stopped" => svc = 0 /\ interrupted_at \in {"loop", "sleep"}

\* Number of samples that the cycle c appended for the service s.
AppendedIn(s, c) ==
  Cardinality({i \in 1..Len(appended[s]) : appended[s][i].timestamp = HistoryCap + c})

\* C16: a service whose collection fails is left by the same step that
\* attempted the collection (no second attempt in the cycle), with its
\* history and model state unchanged and with no alert, intent or
\* notification produced for it; the cycle has appended no sample for a
\* skipped service and exactly one sample for a service that it has
\* processed to the end.
C16_CollectionFrame ==
  [][ /\ (pc = "collect" /\ status'[ServiceOrder[svc]] = "skipped") =>
           /\ UNCHANGED model_vars
           /\ threshold_alerts = <<>> /\ threshold_alerts' = <<>>
           /\ processed = <<>> /\ processed' = <<>>
           /\ intents = <<>> /\ intents' = <<>>
           /\ notifications = <<>> /\ notifications' = <<>>
           /\ svc' # svc
           /\ pc' \in {"collect", "sleep"}
      /\ \A s \in Services :
           LET n == AppendedIn(s, cycle)'
           IN  /\ n <= 1
               /\ status'[s] = "skipped" => n = 0
               /\ status'[s] = "done" => n = 1
    ]_vars

\* The first service was skipped and the second one has been collected and
\* appended to its history in the same cycle.
C16_Witness ==
  /\ svc = 2
  /\ status[ServiceOrder[1]] = "skipped"
  /\ pc = "fuse"
  /\ AppendedIn(ServiceOrder[1], cycle) = 0
  /\ AppendedIn(ServiceOrder[2], cycle) = 1

\* C17: a step changes the history, the scaler or the model of no service
\* other than the one the cycle is processing.
C17_NoSharedState ==
  [][ \A s \in Services :
        (svc = 0 \/ s # ServiceOrder[svc]) =>
          /\ metrics_history'[s] = metrics_history[s]
          /\ appended'[s] = appended[s]
          /\ scalers'[s] = scalers[s]
          /\ anomaly_detectors'[s] = anomaly_detectors[s]
    ]_vars

\* The second service has been fitted while the first one keeps the history
\* and the fit it started with.
C17_Witness ==
  /\ svc = 2
  /\ pc = "fuse"
  /\ Len(metrics_history[ServiceOrder[1]]) = HistoryCap
  /\ scalers[ServiceOrder[1]] = HistoryCap
  /\ anomaly_detectors[ServiceOrder[1]] = HistoryCap
  /\ Len(metrics_history[ServiceOrder[2]]) = 1

\* C19: the length of a history never decreases, and a predict_anomaly call
\* for a service that already holds 10 samples does not take the cold-start
\* branch.
C19_HistoryGrows ==
  [][ /\ \A s \in Services : Len(metrics_history'[s]) >= Len(metrics_history[s])
      /\ (pc = "predict_anomaly" /\ pc' = "fuse"
            /\ Len(metrics_history[ServiceOrder[svc]]) >= MinTrain) =>
           fit_outcome' # "cold"
    ]_vars

\* A sample was appended to a full history, whose length stayed at the cap,
\* and the call went on to the fit.
C19_Witness ==
  /\ pc = "fuse"
  /\ Len(appended[CurrentService]) = HistoryCap + 1
  /\ Len(metrics_history[CurrentService]) = HistoryCap
  /\ fit_outcome = "scored"

\* Positions inside trigger_self_healing and the helpers it calls.
DispatchPcs == ProcessPcs \ {"process_alerts"}

\* C18: an ANOMALY_DETECTED alert always has severity WARNING, the alert
\* being dispatched is never an ANOMALY_DETECTED alert, the dispatcher always
\* finds a remediation for the alert it is given, and the intents issued are
\* those of the threshold alerts alone.
C18_AnomalyNeverDispatched ==
  /\ \A i \in 1..Len(threshold_alerts) :
       threshold_alerts[i].alert_type = "ANOMALY_DETECTED" =>
         threshold_alerts[i].severity = "WARNING"
  /\ pc \in DispatchPcs =>
       /\ threshold_alerts[alert_idx].alert_type # "ANOMALY_DETECTED"
       /\ Remediation(threshold_alerts[alert_idx].alert_type) # "none"
  /\ AlertsExhausted =>
       Len(intents) = Cardinality({i \in 1..Len(threshold_alerts) :
                                     /\ threshold_alerts[i].severity = "CRITICAL"
                                     /\ IsThresholdType(threshold_alerts[i].alert_type)})

\* An anomaly alert with the lowest confidence was the only alert of the
\* sample; it has been logged and nothing was invoked.
C18_Witness ==
  /\ AlertsExhausted
  /\ Len(threshold_alerts) = 1
  /\ threshold_alerts[1].alert_type = "ANOMALY_DETECTED"
  /\ processed = threshold_alerts
  /\ intents = <<>>
  /\ notifications = <<>>

\* Number of times the intent x was issued for the current service.
IntentCount(x) == Cardinality({i \in 1..Len(intents) : intents[i] = x})

\* C20: for one service in one cycle at most 4 intents are issued: at most
\* one restart_service, at most one rollback_service and at most two
\* scale_service(up); a restart_service is the last intent; when the alerts
\* are exhausted there is one intent per CRITICAL alert, two equal intents
\* included.
C20_IntentsPerService ==
  /\ Len(intents) <= 4
  /\ IntentCount("restart_service") <= 1
  /\ IntentCount("rollback_service") <= 1
  /\ IntentCount("scale_service(up)") <= 2
  /\ \A i \in 1..Len(intents) : intents[i] = "restart_service" => i = Len(intents)
  /\ AlertsExhausted =>
       Len(intents) = Cardinality({i \in 1..Len(threshold_alerts) :
                                     threshold_alerts[i].severity = "CRITICAL"})

\* All four fields were CRITICAL: both scale-ups were issued, and the
\* restart came last.
C20_Witness ==
  /\ AlertsExhausted
  /\ intents = <<"scale_service(up)", "rollback_service", "scale_service(up)",
                 "restart_service">>

\* C14: the loop never stops from a position inside trigger_self_healing or
\* one of its helpers: once an alert is being dispatched, its helper and the
\* notification of the helper run before the loop can stop.
C14_DispatchCompletes ==
  pc = "stopped" => interrupted_at \notin DispatchPcs

\* C15: the scaler and the model of a service are always fitted on the same
\* buffer, and after a predict_anomaly call that leaves at least 10 samples
\* in the history both are fitted on the buffer that includes the sample of
\* the call.
C15_SameSnapshot ==
  /\ \A s \in Services : scalers[s] = anomaly_detectors[s]
  /\ (pc = "fuse" /\ Len(metrics_history[CurrentService]) >= MinTrain) =>
       /\ scalers[CurrentService] = Len(appended[CurrentService])
       /\ anomaly_detectors[CurrentService] = Len(appended[CurrentService])

\* C13: after predict_anomaly returned from a call for a service name that
\* is not configured, the call was not answered by the error handler and the
\* name has a history that holds exactly the sample of the call.
C13_LazyBuffer ==
  (pc = "call" /\ metrics # None /\ metrics.service_name \notin Services) =>
    /\ fit_outcome # "key_error"
    /\ metrics.service_name \in DOMAIN metrics_history
    /\ metrics_history[metrics.service_name] = <<metrics>>

====
